---- MODULE Spec2Model ----
(***************************************************************************)
(* getcontacts: salt-bridge detection per frame (contact_calc/             *)
(* salt_bridges.py), the command line of dynamic_contact_networks.py, the  *)
(* frame scheduler behind compute_dynamic_contacts and the flare graph     *)
(* builder create_graph of get_contact_flare.py.                           *)
(*                                                                         *)
(* Four specifications share one set of variables; each leaves the         *)
(* variables of the other three at their idle values:                      *)
(*   SpecSaltBridge  one call of compute_salt_bridges, statement by        *)
(*                   statement                                             *)
(*   SpecScheduler   frames handed to workers, results merged and sorted   *)
(*   SpecFlare       create_graph, one contact per step, then finalization *)
(*   SpecCLI         the __main__ block on an argument vector              *)
(***************************************************************************)
EXTENDS Integers, Sequences, FiniteSets, TLC

VARIABLES
    \* ---- compute_salt_bridges (salt_bridges.py:68-107)
    sele_id, sele_id2,        \* selection queries, None when not supplied
    sele1_atoms, sele2_atoms, \* get_selection_atoms results (lines 93-94)
    anion_list, cation_list,  \* prep_salt_bridge_computation (line 90)
    frame_idx,                \* frame being computed
    k,                        \* position in the anion x cation double loop
    pc,                       \* statement the call is at
    dist,                     \* local dist (line 103)
    salt_bridges,             \* local salt_bridges (line 96)
    calls,                    \* calls made to filter / compute_distance, in order
    returned,                 \* value handed to the caller (line 107), or Raised
    \* ---- frame scheduler
    traj,                     \* distance of each pair in each frame (read only)
    cores, stride,            \* worker count and stride
    pending,                  \* strided frames not yet handed out
    busy,                     \* worker -> frame it holds, or NoFrame
    merged,                   \* records in completion order
    processed,                \* frame -> number of times it was computed
    output,                   \* merged list sorted by frame, or NotYet
    \* ---- create_graph (get_contact_flare.py:153-212)
    resi_labels,              \* label table, or None
    edges,                    \* ret["edges"], in creation order
    resi_edges,               \* contact_key -> position of its edge in edges
    extras,                   \* ret["trees"] and ret["tracks"], once built
    consumed,                 \* number of contacts read so far
    gpc,                      \* "read" or "done"
    \* history of the loop, for stating the properties
    edge_keys,                \* per edge, the <<a1_key, a2_key>> that created it
    kept,                     \* <<frame, a1_key, a2_key, edge>> of each contact that reached line 190
    orient,                   \* <<a1_key, a2_key, swapped>> of each contact that reached line 190
    dropped,                  \* which `continue` branches were taken
    \* ---- dynamic_contact_networks.py __main__
    argv,                     \* sys.argv
    cli                       \* outcome of the run, or NotRun

sbVars    == <<sele_id, sele_id2, sele1_atoms, sele2_atoms, anion_list,
               cation_list, frame_idx, k, pc, dist, salt_bridges, calls, returned>>
schedVars == <<traj, cores, stride, pending, busy, merged, processed, output>>
flareVars == <<resi_labels, edges, resi_edges, extras, consumed, gpc,
               edge_keys, kept, orient, dropped>>
cliVars   == <<argv, cli>>
vars      == <<sbVars, schedVars, flareVars, cliVars>>

None == "None"

\* a call in progress, a call that returned v, a call ended by an exception
Running     == [status |-> "running", value |-> <<>>]
Returned(v) == [status |-> "returned", value |-> v]
Raised      == [status |-> "raised", value |-> <<>>]

\* results of compute_distance: a distance, or the failure of the query
Resolved(d) == [ok |-> TRUE, d |-> d]
GeometryQueryError == [ok |-> FALSE, d |-> 0]

-----------------------------------------------------------------------------
(* Bounds *)

\* distances are drawn from 0..MaxDist (same unit as the cutoff)
MaxDist == 5
\* frame indices are 0..MaxFrame
MaxFrame == 2
\* worker counts are 1..MaxCores, strides 1..MaxStride
MaxCores == 2
MaxStride == 2
\* command lines hold at most MaxArgs arguments after the program name
MaxArgs == 5
\* contact lists hold at most MaxContacts contacts, of frames 0..MaxContactFrame
MaxContacts == 3
MaxContactFrame == 1

Anions  == {"a1", "a2"}
Cations == {"c1", "c2"}
Atoms   == Anions \cup Cations
Dists   == 0..MaxDist
Frames  == 0..MaxFrame

\* duplicate-free sequences over S
Perms(S) == {s \in UNION {[1..n -> S] : n \in 0..Cardinality(S)} :
                \A i, j \in DOMAIN s : i # j => s[i] # s[j]}

-----------------------------------------------------------------------------
(* contact_calc/salt_bridges.py *)

SALT_BRIDGE_CUTOFF_DISTANCE == 4

\* the Structure Provider's accessors return each atom once
get_anion_atoms  == Perms(Anions)
get_cation_atoms == Perms(Cations)
get_selection_atoms == SUBSET Atoms

\* compute_distance returns a distance or fails
compute_distance == {Resolved(d) : d \in Dists} \cup {GeometryQueryError}

\* the filter with the second direction (line 46) left out
filter_dual_selection_OneDirection(s1, s2, anion_atom, cation_atom) ==
    LET dual_sel1 == anion_atom \in s1 /\ cation_atom \in s2
    IN  IF dual_sel1 THEN FALSE ELSE TRUE

\* lines 45-49: True means "filter the pair out"
filter_dual_selection_salt_bridges(s1, s2, anion_atom, cation_atom) ==
    LET dual_sel1 == anion_atom \in s1 /\ cation_atom \in s2
        dual_sel2 == anion_atom \in s2 /\ cation_atom \in s1
    IN  IF dual_sel1 \/ dual_sel2 THEN FALSE ELSE TRUE

\* line 92 and line 100
DualSelection(sid, sid2) == sid # None /\ sid2 # None

\* lines 100-102: the pair is skipped by `continue`
SkipsPair(sid, sid2, s1, s2, a, c) ==
    DualSelection(sid, sid2) /\ filter_dual_selection_salt_bridges(s1, s2, a, c) = TRUE

\* the comparison of line 104 made inclusive
WithinCutoff_Inclusive(d) == d <= SALT_BRIDGE_CUTOFF_DISTANCE

\* line 104
WithinCutoff(d) == d < SALT_BRIDGE_CUTOFF_DISTANCE

\* line 105
SaltBridgeRecord(f, a, c) == <<f, "sb", a, c>>

\* lines 97-98: the k-th pair of the double loop, anions outermost
NPairs(al, cl) == Len(al) * Len(cl)
PairAt(al, cl, n) == <<al[((n - 1) \div Len(cl)) + 1], cl[((n - 1) % Len(cl)) + 1]>>

\* where the loop goes after the body of pair n
AfterPair(al, cl, n) == IF n + 1 > NPairs(al, cl) THEN "return" ELSE "filter"

SBInit ==
    /\ sele_id \in {None, "sel1"}
    /\ sele_id2 \in {None, "sel2"}
    /\ sele1_atoms \in IF DualSelection(sele_id, sele_id2) THEN get_selection_atoms ELSE {{}}
    /\ sele2_atoms \in IF DualSelection(sele_id, sele_id2) THEN get_selection_atoms ELSE {{}}
    /\ anion_list \in get_anion_atoms
    /\ cation_list \in get_cation_atoms
    /\ frame_idx \in Frames
    /\ k = 1
    /\ pc = IF NPairs(anion_list, cation_list) = 0 THEN "return" ELSE "filter"
    /\ dist = GeometryQueryError
    /\ salt_bridges = <<>>
    /\ calls = <<>>
    /\ returned = Running
    \* the other three parts stay idle
    /\ traj = <<>> /\ cores = 0 /\ stride = 0 /\ pending = {}
    /\ busy = <<>> /\ merged = <<>> /\ processed = <<>> /\ output = Running
    /\ resi_labels = <<>> /\ edges = <<>> /\ resi_edges = <<>> /\ extras = <<>>
    /\ consumed = 0 /\ gpc = "idle"
    /\ edge_keys = <<>> /\ kept = {} /\ orient = {} /\ dropped = {}
    /\ argv = <<>> /\ cli = Running

CurAnion  == PairAt(anion_list, cation_list, k)[1]
CurCation == PairAt(anion_list, cation_list, k)[2]

\* the loop body without its `continue`: the filter's verdict is ignored
SBFilterReject_NoContinue ==
    /\ pc = "filter"
    /\ DualSelection(sele_id, sele_id2)
    /\ SkipsPair(sele_id, sele_id2, sele1_atoms, sele2_atoms, CurAnion, CurCation)
    /\ calls' = Append(calls, <<"filter", CurAnion, CurCation, TRUE>>)
    /\ pc' = "distance"
    /\ UNCHANGED <<sele_id, sele_id2, sele1_atoms, sele2_atoms, anion_list,
                   cation_list, frame_idx, k, dist, salt_bridges, returned>>
    /\ UNCHANGED <<schedVars, flareVars, cliVars>>

\* lines 100-102, pair filtered out: continue
SBFilterReject ==
    /\ pc = "filter"
    /\ DualSelection(sele_id, sele_id2)
    /\ SkipsPair(sele_id, sele_id2, sele1_atoms, sele2_atoms, CurAnion, CurCation)
    /\ calls' = Append(calls, <<"filter", CurAnion, CurCation, TRUE>>)
    /\ pc' = AfterPair(anion_list, cation_list, k)
    /\ k' = k + 1
    /\ UNCHANGED <<sele_id, sele_id2, sele1_atoms, sele2_atoms, anion_list,
                   cation_list, frame_idx, dist, salt_bridges, returned>>
    /\ UNCHANGED <<schedVars, flareVars, cliVars>>

\* lines 100-101, pair kept
SBFilterAccept ==
    /\ pc = "filter"
    /\ DualSelection(sele_id, sele_id2)
    /\ ~SkipsPair(sele_id, sele_id2, sele1_atoms, sele2_atoms, CurAnion, CurCation)
    /\ calls' = Append(calls, <<"filter", CurAnion, CurCation, FALSE>>)
    /\ pc' = "distance"
    /\ UNCHANGED <<sele_id, sele_id2, sele1_atoms, sele2_atoms, anion_list,
                   cation_list, frame_idx, k, dist, salt_bridges, returned>>
    /\ UNCHANGED <<schedVars, flareVars, cliVars>>

\* line 100 false: fewer than two selections, the filter is not called
SBNoFilter ==
    /\ pc = "filter"
    /\ ~DualSelection(sele_id, sele_id2)
    /\ pc' = "distance"
    /\ UNCHANGED <<sele_id, sele_id2, sele1_atoms, sele2_atoms, anion_list,
                   cation_list, frame_idx, k, dist, salt_bridges, calls, returned>>
    /\ UNCHANGED <<schedVars, flareVars, cliVars>>

\* line 103, the distance is resolved
SBDistance ==
    /\ pc = "distance"
    /\ \E r \in compute_distance : r.ok /\ dist' = r
    /\ calls' = Append(calls, <<"distance", CurAnion, CurCation>>)
    /\ pc' = "test"
    /\ UNCHANGED <<sele_id, sele_id2, sele1_atoms, sele2_atoms, anion_list,
                   cation_list, frame_idx, k, salt_bridges, returned>>
    /\ UNCHANGED <<schedVars, flareVars, cliVars>>

\* line 103 wrapped in a handler that skips the pair and goes on
SBDistanceRaises_SkipPair ==
    /\ pc = "distance"
    /\ \E r \in compute_distance : ~r.ok
    /\ calls' = Append(calls, <<"distance", CurAnion, CurCation>>)
    /\ pc' = AfterPair(anion_list, cation_list, k)
    /\ k' = k + 1
    /\ UNCHANGED <<sele_id, sele_id2, sele1_atoms, sele2_atoms, anion_list,
                   cation_list, frame_idx, dist, salt_bridges, returned>>
    /\ UNCHANGED <<schedVars, flareVars, cliVars>>

\* line 103, compute_distance raises: nothing in compute_salt_bridges catches
\* it, the call ends without reaching line 107
SBDistanceRaises ==
    /\ pc = "distance"
    /\ \E r \in compute_distance : ~r.ok
    /\ calls' = Append(calls, <<"distance", CurAnion, CurCation>>)
    /\ pc' = "raised"
    /\ returned' = Raised
    /\ UNCHANGED <<sele_id, sele_id2, sele1_atoms, sele2_atoms, anion_list,
                   cation_list, frame_idx, k, dist, salt_bridges>>
    /\ UNCHANGED <<schedVars, flareVars, cliVars>>

\* lines 104-105
SBTest ==
    /\ pc = "test"
    /\ salt_bridges' = IF WithinCutoff(dist.d)
                         THEN Append(salt_bridges,
                                     SaltBridgeRecord(frame_idx, CurAnion, CurCation))
                         ELSE salt_bridges
    /\ pc' = AfterPair(anion_list, cation_list, k)
    /\ k' = k + 1
    /\ UNCHANGED <<sele_id, sele_id2, sele1_atoms, sele2_atoms, anion_list,
                   cation_list, frame_idx, dist, calls, returned>>
    /\ UNCHANGED <<schedVars, flareVars, cliVars>>

\* line 107
SBReturn ==
    /\ pc = "return"
    /\ returned' = Returned(salt_bridges)
    /\ pc' = "done"
    /\ UNCHANGED <<sele_id, sele_id2, sele1_atoms, sele2_atoms, anion_list,
                   cation_list, frame_idx, k, dist, salt_bridges, calls>>
    /\ UNCHANGED <<schedVars, flareVars, cliVars>>

SBNext ==
    \/ SBFilterReject
    \/ SBFilterAccept
    \/ SBNoFilter
    \/ SBDistance
    \/ SBDistanceRaises
    \/ SBTest
    \/ SBReturn

SpecSaltBridge == SBInit /\ [][SBNext]_vars

-----------------------------------------------------------------------------
(* compute_salt_bridges as a function of the frame, for the scheduler's    *)
(* workers: the same loop, run to its end on the distances of trajectory t *)

\* line 96 with the list kept from one call to the next
InitialSaltBridges_Shared == merged

\* line 96
InitialSaltBridges == <<>>

RECURSIVE SaltBridgeLoop(_, _, _, _, _, _)
SaltBridgeLoop(t, f, al, cl, n, acc) ==
    IF n > NPairs(al, cl) THEN Returned(acc)
    ELSE LET a == PairAt(al, cl, n)[1]
             c == PairAt(al, cl, n)[2]
         IN  IF SkipsPair(sele_id, sele_id2, sele1_atoms, sele2_atoms, a, c)
               THEN SaltBridgeLoop(t, f, al, cl, n + 1, acc)
             ELSE IF ~t[f][<<a, c>>].ok THEN Raised
             ELSE SaltBridgeLoop(t, f, al, cl, n + 1,
                     IF WithinCutoff(t[f][<<a, c>>].d)
                       THEN Append(acc, SaltBridgeRecord(f, a, c))
                       ELSE acc)

compute_salt_bridges(t, f) ==
    SaltBridgeLoop(t, f, anion_list, cation_list, 1, InitialSaltBridges)

-----------------------------------------------------------------------------
(* Frame scheduler: strided frames handed to a fixed number of workers,    *)
(* results merged as the workers finish, then sorted by frame index        *)

\* the distances a frame can hold for the pairs (a1, c1), (a2, c1)
SchedPairs == {<<"a1", "c1">>, <<"a2", "c1">>}
Near == Resolved(SALT_BRIDGE_CUTOFF_DISTANCE - 1)
Far  == Resolved(SALT_BRIDGE_CUTOFF_DISTANCE)
FrameKinds ==
    [SchedPairs -> {Near, Far}] \cup
    {[p \in SchedPairs |-> IF p[1] = "a1" THEN Near ELSE GeometryQueryError]}

StridedFrames(st) == {f \in Frames : f % st = 0}
Workers == 1..cores

\* stable sort of a record list by frame index
RECURSIVE SortByFrameFrom(_, _)
SortByFrameFrom(recs, f) ==
    IF f > MaxFrame THEN <<>>
    ELSE SelectSeq(recs, LAMBDA r : r[1] = f) \o SortByFrameFrom(recs, f + 1)
SortByFrame(recs) == SortByFrameFrom(recs, 0)

\* what a worker contributes for a frame: the list the detector returned,
\* nothing when the detector failed on that frame
FrameContribution(res) == IF res.status = "returned" THEN res.value ELSE <<>>

SchedInit ==
    /\ traj \in [Frames -> FrameKinds]
    /\ cores \in 1..MaxCores
    /\ stride \in 1..MaxStride
    /\ pending = StridedFrames(stride)
    /\ busy = [w \in 1..cores |-> {}]
    /\ merged = <<>>
    /\ processed = [f \in Frames |-> 0]
    /\ output = Running
    \* detector configuration: candidate lists of the first frame, the single
    \* selection the command line can pass
    /\ sele_id \in {None, "sel1"} /\ sele_id2 = None
    /\ sele1_atoms = {} /\ sele2_atoms = {}
    /\ anion_list = <<"a1", "a2">> /\ cation_list = <<"c1">>
    /\ frame_idx = 0 /\ k = 1 /\ pc = "idle" /\ dist = GeometryQueryError
    /\ salt_bridges = <<>> /\ calls = <<>> /\ returned = Running
    \* the other parts stay idle
    /\ resi_labels = <<>> /\ edges = <<>> /\ resi_edges = <<>> /\ extras = <<>>
    /\ consumed = 0 /\ gpc = "idle"
    /\ edge_keys = <<>> /\ kept = {} /\ orient = {} /\ dropped = {}
    /\ argv = <<>> /\ cli = Running

\* an idle worker takes one of the frames not yet handed out
Dispatch(w) ==
    /\ output = Running
    /\ busy[w] = {}
    /\ \E f \in pending :
          /\ busy' = [busy EXCEPT ![w] = {f}]
          /\ pending' = pending \ {f}
    /\ UNCHANGED <<traj, cores, stride, merged, processed, output>>
    /\ UNCHANGED <<sbVars, flareVars, cliVars>>

\* a worker finishes its frame and its records join the merged list
Complete(w) ==
    /\ busy[w] # {}
    /\ \E f \in busy[w] :
          /\ merged' = merged \o FrameContribution(compute_salt_bridges(traj, f))
          /\ processed' = [processed EXCEPT ![f] = @ + 1]
    /\ busy' = [busy EXCEPT ![w] = {}]
    /\ UNCHANGED <<traj, cores, stride, pending, output>>
    /\ UNCHANGED <<sbVars, flareVars, cliVars>>

\* every frame is done: the merged list is sorted by frame index
Finish ==
    /\ output = Running
    /\ pending = {}
    /\ \A w \in Workers : busy[w] = {}
    /\ output' = Returned(SortByFrame(merged))
    /\ UNCHANGED <<traj, cores, stride, pending, busy, merged, processed>>
    /\ UNCHANGED <<sbVars, flareVars, cliVars>>

SchedNext ==
    \/ \E w \in Workers : Dispatch(w)
    \/ \E w \in Workers : Complete(w)
    \/ Finish

SpecScheduler == SchedInit /\ [][SchedNext]_vars

-----------------------------------------------------------------------------
(* dynamic_contact_networks.py, the __main__ block *)

K_MIN_ARG == 4
DefaultCores == 6
DefaultStride == 1

ProgName == "dynamic_contact_networks.py"
\* the words a command line is made of: a path, flags, an interaction type,
\* a number
Path  == "path"
Flags == {"-itype", "-all", "-sb", "-cores", "-stride", "-solv", "-sele", "-ligand"}
Words == {Path, "2"} \cup Flags
ArgVectors == UNION {[1..n -> Words] : n \in 0..MaxArgs}

ALL_ITYPES == <<"-sb", "-pc", "-ps", "-ts", "-vdw", "-hb", "-hlb">>

Contains(seq, w) == \E i \in DOMAIN seq : seq[i] = w
\* list.index: position of the first occurrence (1-based here)
IndexOf(seq, w) == CHOOSE i \in DOMAIN seq : seq[i] = w /\ \A j \in 1..(i - 1) : seq[j] # w
\* seq[i:] of a 1-based position i - 1
From(seq, i) == SubSeq(seq, i, Len(seq))
\* int(): defined on numerals only
IsNumeral(w) == w \in {"2"}
IntOf(w) == CASE w = "2" -> 2

\* the run before line 51
CliStart == [pc |-> "argcount", usage |-> FALSE, exit |-> 0, error |-> "",
             ITYPES |-> <<>>, cores |-> DefaultCores, stride |-> DefaultStride,
             solvent_resn |-> "TIP3", sele_id |-> None, ligand |-> None,
             invoked |-> FALSE, call |-> <<>>]

\* an uncaught exception: traceback, exit status 1
Uncaught(c, name) == [c EXCEPT !.pc = "exit", !.error = name, !.exit = 1]

\* line 51
TooFewArgs(av) == Len(av) < K_MIN_ARG

CLIInit ==
    /\ \E rest \in ArgVectors : argv = <<ProgName>> \o rest
    /\ cli = CliStart
    \* the other parts stay idle
    /\ sele_id = None /\ sele_id2 = None
    /\ sele1_atoms = {} /\ sele2_atoms = {}
    /\ anion_list = <<>> /\ cation_list = <<>>
    /\ frame_idx = 0 /\ k = 1 /\ pc = "idle" /\ dist = GeometryQueryError
    /\ salt_bridges = <<>> /\ calls = <<>> /\ returned = Running
    /\ traj = <<>> /\ cores = 0 /\ stride = 0 /\ pending = {}
    /\ busy = <<>> /\ merged = <<>> /\ processed = <<>> /\ output = Running
    /\ resi_labels = <<>> /\ edges = <<>> /\ resi_edges = <<>> /\ extras = <<>>
    /\ consumed = 0 /\ gpc = "idle"
    /\ edge_keys = <<>> /\ kept = {} /\ orient = {} /\ dropped = {}

\* lines 51-53: too few arguments, usage text and exit(1)
CliUsage ==
    /\ cli.pc = "argcount"
    /\ TooFewArgs(argv)
    /\ cli' = [cli EXCEPT !.pc = "exit", !.usage = TRUE, !.exit = 1]
    /\ UNCHANGED <<argv, sbVars, schedVars, flareVars>>

\* lines 51, 56-61: the required arguments
CliRequired ==
    /\ cli.pc = "argcount"
    /\ ~TooFewArgs(argv)
    /\ cli' = IF ~Contains(argv, "-itype")
                 THEN Uncaught(cli, "ValueError")         \* list.index, line 57
               ELSE LET listed == From(argv, IndexOf(argv, "-itype") + 1)
                    IN  [cli EXCEPT !.pc = "optional",
                                    !.ITYPES = IF Contains(listed, "-all")
                                                 THEN ALL_ITYPES ELSE listed]
    /\ UNCHANGED <<argv, sbVars, schedVars, flareVars>>

\* an optional flag is given without a word after it: sys.argv[i + 1] fails
NoWordAfter(av, flag) == Contains(av, flag) /\ IndexOf(av, flag) + 1 > Len(av)
WordAfter(av, flag) == av[IndexOf(av, flag) + 1]
\* int(sys.argv[i + 1]) fails
NotANumber(av, flag) == Contains(av, flag) /\ ~IsNumeral(WordAfter(av, flag))

\* lines 64-88: the optional arguments, in the order of the code
CliOptional ==
    /\ cli.pc = "optional"
    /\ cli' =
         IF NoWordAfter(argv, "-cores") THEN Uncaught(cli, "IndexError")       \* line 72
         ELSE IF NotANumber(argv, "-cores") THEN Uncaught(cli, "ValueError")   \* line 72
         ELSE IF NoWordAfter(argv, "-stride") THEN Uncaught(cli, "IndexError") \* line 76
         ELSE IF NotANumber(argv, "-stride") THEN Uncaught(cli, "ValueError")  \* line 76
         ELSE IF Contains(argv, "-solv") THEN Uncaught(cli, "NameError")       \* solvIndex, line 80
         ELSE IF NoWordAfter(argv, "-sele") THEN Uncaught(cli, "IndexError")   \* line 84
         ELSE IF NoWordAfter(argv, "-ligand") THEN Uncaught(cli, "IndexError") \* line 88
         ELSE [cli EXCEPT
                 !.pc = "invoke",
                 !.cores = IF Contains(argv, "-cores")
                             THEN IntOf(WordAfter(argv, "-cores")) ELSE DefaultCores,
                 !.stride = IF Contains(argv, "-stride")
                              THEN IntOf(WordAfter(argv, "-stride")) ELSE DefaultStride,
                 !.sele_id = IF Contains(argv, "-sele")
                               THEN WordAfter(argv, "-sele") ELSE None,
                 !.ligand = IF Contains(argv, "-ligand")
                              THEN WordAfter(argv, "-ligand") ELSE None]
    /\ UNCHANGED <<argv, sbVars, schedVars, flareVars>>

\* lines 90-93: compute_dynamic_contacts is called, the program ends normally
CliInvoke ==
    /\ cli.pc = "invoke"
    /\ cli' = [cli EXCEPT !.pc = "exit", !.invoked = TRUE,
                           !.call = <<argv[2], argv[3], argv[4], cli.ITYPES,
                                      cli.cores, cli.stride, cli.solvent_resn,
                                      cli.sele_id, cli.ligand>>]
    /\ UNCHANGED <<argv, sbVars, schedVars, flareVars>>

CLINext ==
    \/ CliUsage
    \/ CliRequired
    \/ CliOptional
    \/ CliInvoke

SpecCLI == CLIInit /\ [][CLINext]_vars

-----------------------------------------------------------------------------
(* get_contact_flare.py, create_graph (lines 153-212) *)
(* Strings are sequences of characters, so that ":".join, + and > act on   *)
(* them as they do in Python.                                              *)

\* the characters in use, in code-point order
CharOrder == <<"1", ":", "L", "N", "O", "S", "Y">>
Ord(ch) == CHOOSE i \in DOMAIN CharOrder : CharOrder[i] = ch

\* Python's s > t on strings
RECURSIVE StrGreater(_, _)
StrGreater(s, t) ==
    IF s = <<>> THEN FALSE
    ELSE IF t = <<>> THEN TRUE
    ELSE IF Head(s) # Head(t) THEN Ord(Head(s)) > Ord(Head(t))
    ELSE StrGreater(Tail(s), Tail(t))

\* sep.join(fields)
RECURSIVE Join(_, _)
Join(sep, fields) ==
    IF fields = <<>> THEN <<>>
    ELSE IF Len(fields) = 1 THEN fields[1]
    ELSE fields[1] \o sep \o Join(sep, Tail(fields))

\* sorted(set(frames))
RECURSIVE SortedSet(_)
SortedSet(S) ==
    IF S = {} THEN <<>>
    ELSE LET m == CHOOSE x \in S : \A y \in S : x <= y
         IN  <<m>> \o SortedSet(S \ {m})

\* atom labels: chain, residue name, residue number, atom name
LYS == <<"L", "Y", "S">>
FlareAtoms ==
    { <<<<"1">>, LYS, <<"1">>,      <<"N">>>>,
      <<<<"1">>, LYS, <<"1">>,      <<"O">>>>,
      <<<<"1">>, LYS, <<"1", "1">>, <<"N">>>>,
      <<<<>>,    LYS, <<"1", "1">>, <<"N">>>> }
\* contacts: a frame, an interaction type, two different atoms
ContactDomain ==
    {<<f, "sb", p[1], p[2]>> :
        f \in 0..MaxContactFrame, p \in {q \in FlareAtoms \X FlareAtoms : q[1] # q[2]}}

\* lines 165-166
ResidueKeyOf(atom) == Join(<<":">>, SubSeq(atom, 1, 3))
Key1 == ResidueKeyOf(<<<<"1">>, LYS, <<"1">>>>)
Key2 == ResidueKeyOf(<<<<"1">>, LYS, <<"1", "1">>>>)

\* label tables: no table (None), a table without entries, a table for two
\* of the three residues
LabelEntry(label, path, color) == [label |-> label, treepath |-> path, color |-> color]
NoTable == [supplied |-> FALSE, table |-> <<>>]
LabelTables ==
    { NoTable,
      [supplied |-> TRUE, table |-> <<>>],
      [supplied |-> TRUE,
       table |-> [key \in {Key1, Key2} |->
                    IF key = Key1 THEN LabelEntry(<<"L", "1">>, "Root.L1", "red")
                    ELSE LabelEntry(<<"L", "2">>, "Root.L2", "blue")]] }

\* `if resi_labels:` (line 174): a table that is not None and not empty
LabelsTruthy(labels) == labels.supplied /\ DOMAIN labels.table # {}
\* `if resi_labels is not None:` (line 197)
LabelsNotNone(labels) == labels.supplied

\* line 167 without the test
SameResidue_Never(a1_key, a2_key) == FALSE

\* line 167
SameResidue(a1_key, a2_key) == a1_key = a2_key

\* line 169 without the swap
NeedsSwap_Never(a1_key, a2_key) == FALSE

\* line 169
NeedsSwap(a1_key, a2_key) == StrGreater(a1_key, a2_key)

\* line 171
ContactKey(a1_key, a2_key) == a1_key \o a2_key

\* line 175
NotInLabels(labels, a1_key, a2_key) ==
    a1_key \notin DOMAIN labels.table \/ a2_key \notin DOMAIN labels.table

\* the body of the loop of lines 163-190 on graph g, for one contact
LoopBody(g, labels, contact) ==
    LET c  == <<contact[1], contact[2], SubSeq(contact[3], 1, 3), SubSeq(contact[4], 1, 3)>>
        k1 == ResidueKeyOf(c[3])
        k2 == ResidueKeyOf(c[4])
    IN
    IF SameResidue(k1, k2)
      THEN [g EXCEPT !.dropped = @ \cup {"self"}]
    ELSE
    LET swap        == NeedsSwap(k1, k2)
        a1_key      == IF swap THEN k2 ELSE k1
        a2_key      == IF swap THEN k1 ELSE k2
        contact_key == ContactKey(a1_key, a2_key)
    IN
    IF LabelsTruthy(labels) /\ NotInLabels(labels, a1_key, a2_key)
      THEN [g EXCEPT !.dropped = @ \cup {"label"}]
    ELSE
    LET a1_label == IF LabelsTruthy(labels) THEN labels.table[a1_key].label ELSE a1_key
        a2_label == IF LabelsTruthy(labels) THEN labels.table[a2_key].label ELSE a2_key
        isNew    == contact_key \notin DOMAIN g.resi_edges
        at       == IF isNew THEN Len(g.edges) + 1 ELSE g.resi_edges[contact_key]
        edges1   == IF isNew
                      THEN Append(g.edges, [name1 |-> a1_label, name2 |-> a2_label,
                                            frames |-> <<>>])
                      ELSE g.edges
    IN  [edges      |-> [edges1 EXCEPT ![at].frames = Append(@, contact[1])],
         resi_edges |-> IF isNew
                          THEN [key \in DOMAIN g.resi_edges \cup {contact_key} |->
                                  IF key = contact_key THEN at ELSE g.resi_edges[key]]
                          ELSE g.resi_edges,
         edge_keys  |-> IF isNew THEN Append(g.edge_keys, <<a1_key, a2_key>>)
                        ELSE g.edge_keys,
         kept       |-> g.kept \cup {<<contact[1], a1_key, a2_key, at>>},
         orient     |-> g.orient \cup {<<a1_key, a2_key, swap>>},
         dropped    |-> g.dropped]

\* the graph under construction
Graph == [edges |-> edges, resi_edges |-> resi_edges, edge_keys |-> edge_keys,
          kept |-> kept, orient |-> orient, dropped |-> dropped]

NoExtras == [present |-> FALSE, treePaths |-> <<>>, trackProperties |-> <<>>]

FlareInit ==
    /\ resi_labels \in LabelTables
    /\ edges = <<>>
    /\ resi_edges = <<>>
    /\ extras = NoExtras
    /\ consumed = 0
    /\ gpc = "read"
    /\ edge_keys = <<>> /\ kept = {} /\ orient = {} /\ dropped = {}
    \* the other parts stay idle
    /\ sele_id = None /\ sele_id2 = None
    /\ sele1_atoms = {} /\ sele2_atoms = {}
    /\ anion_list = <<>> /\ cation_list = <<>>
    /\ frame_idx = 0 /\ k = 1 /\ pc = "idle" /\ dist = GeometryQueryError
    /\ salt_bridges = <<>> /\ calls = <<>> /\ returned = Running
    /\ traj = <<>> /\ cores = 0 /\ stride = 0 /\ pending = {}
    /\ busy = <<>> /\ merged = <<>> /\ processed = <<>> /\ output = Running
    /\ argv = <<>> /\ cli = Running

\* lines 163-190: the next contact of the list
ReadContact ==
    /\ gpc = "read"
    /\ consumed < MaxContacts
    /\ \E contact \in ContactDomain :
          LET g == LoopBody(Graph, resi_labels, contact)
          IN  /\ edges' = g.edges
              /\ resi_edges' = g.resi_edges
              /\ edge_keys' = g.edge_keys
              /\ kept' = g.kept
              /\ orient' = g.orient
              /\ dropped' = g.dropped
    /\ consumed' = consumed + 1
    /\ UNCHANGED <<resi_labels, extras, gpc>>
    /\ UNCHANGED <<sbVars, schedVars, cliVars>>

\* lines 192-212: the list is exhausted; frames are sorted and deduplicated,
\* trees and tracks are built from the label table in the order of its values
Finalize ==
    /\ gpc = "read"
    /\ edges' = [i \in DOMAIN edges |->
                   [edges[i] EXCEPT !.frames = SortedSet({@[j] : j \in DOMAIN @})]]
    /\ IF LabelsNotNone(resi_labels)
         THEN \E order \in Perms(DOMAIN resi_labels.table) :
                /\ Len(order) = Cardinality(DOMAIN resi_labels.table)
                /\ extras' =
                     [present |-> TRUE,
                      treePaths |-> [i \in DOMAIN order |->
                                        resi_labels.table[order[i]].treepath],
                      trackProperties |->
                         [i \in DOMAIN order |->
                             [nodeName |-> resi_labels.table[order[i]].label,
                              color |-> resi_labels.table[order[i]].color,
                              size |-> "1.0"]]]
         ELSE extras' = NoExtras
    /\ gpc' = "done"
    /\ UNCHANGED <<resi_labels, resi_edges, consumed, edge_keys, kept, orient, dropped>>
    /\ UNCHANGED <<sbVars, schedVars, cliVars>>

FlareNext ==
    \/ ReadContact
    \/ Finalize

SpecFlare == FlareInit /\ [][FlareNext]_vars

-----------------------------------------------------------------------------
(* Properties of compute_salt_bridges, checked under SpecSaltBridge *)

SeqRange(s) == {s[i] : i \in DOMAIN s}
CrossProduct == {<<a, c>> : a \in SeqRange(anion_list), c \in SeqRange(cation_list)}
CrossSelection(a, c) ==
    \/ a \in sele1_atoms /\ c \in sele2_atoms
    \/ a \in sele2_atoms /\ c \in sele1_atoms
FilterCalls   == {i \in DOMAIN calls : calls[i][1] = "filter"}
DistanceCalls == {i \in DOMAIN calls : calls[i][1] = "distance"}

\* C1: with both selections supplied, every emitted record is of a pair with
\* the anion in one selection and the cation in the other, and the filter
\* answers "filter out" exactly for the pairs where neither direction holds.
C1_DualSelectionOnly ==
    DualSelection(sele_id, sele_id2) =>
        /\ \A i \in DOMAIN salt_bridges :
              CrossSelection(salt_bridges[i][3], salt_bridges[i][4])
        /\ \A i \in FilterCalls :
              calls[i][4] = (~CrossSelection(calls[i][2], calls[i][3]))

\* S1 = {a1, c1}, S2 = {a2, c2}: (a1, c2) accepted and emitted, (a1, c1) and
\* (a2, c2) rejected
C1_Witness ==
    /\ pc = "done"
    /\ sele1_atoms = {"a1", "c1"} /\ sele2_atoms = {"a2", "c2"}
    /\ DualSelection(sele_id, sele_id2)
    /\ \E i \in FilterCalls : calls[i] = <<"filter", "a1", "c2", FALSE>>
    /\ \E i \in FilterCalls : calls[i] = <<"filter", "a1", "c1", TRUE>>
    /\ \E i \in FilterCalls : calls[i] = <<"filter", "a2", "c2", TRUE>>
    /\ \E i \in DOMAIN salt_bridges : salt_bridges[i] = <<frame_idx, "sb", "a1", "c2">>
    /\ \A i \in DOMAIN salt_bridges : salt_bridges[i][4] # "c1" \/ salt_bridges[i][3] # "a1"

\* C2: at the distance test the record [frame_idx, "sb", anion, cation] is
\* appended exactly when the distance is strictly below the cutoff, nothing is
\* appended otherwise, and no pair is ever recorded twice.
C2_StrictCutoff ==
    /\ [][pc = "test" =>
            /\ dist.d < SALT_BRIDGE_CUTOFF_DISTANCE =>
                  salt_bridges' = Append(salt_bridges, <<frame_idx, "sb", CurAnion, CurCation>>)
            /\ dist.d >= SALT_BRIDGE_CUTOFF_DISTANCE => salt_bridges' = salt_bridges]_vars
    /\ [](\A i, j \in DOMAIN salt_bridges : salt_bridges[i] = salt_bridges[j] => i = j)

\* the pair just tested was exactly at the cutoff and left no record, while an
\* earlier pair below the cutoff did
C2_Witness ==
    /\ k > 1
    /\ pc \in {"filter", "return"}
    /\ dist = Resolved(SALT_BRIDGE_CUTOFF_DISTANCE)
    /\ Len(calls) > 0 /\ calls[Len(calls)][1] = "distance"
    /\ salt_bridges # <<>>
    /\ \A i \in DOMAIN salt_bridges :
          <<salt_bridges[i][3], salt_bridges[i][4]>> # PairAt(anion_list, cation_list, k - 1)

\* C7 as stated: a distance query that fails skips that pair only, the loop
\* goes on to the next pair with the records collected so far.
C7_PairSkippedFrameContinues ==
    [][(pc = "distance" /\ pc' # "test") =>
          /\ pc' = AfterPair(anion_list, cation_list, k)
          /\ k' = k + 1
          /\ salt_bridges' = salt_bridges
          /\ returned' = Running]_vars

\* C7 amended: a distance query that fails ends the call at that pair; no
\* list is returned, the records collected so far are not handed to the
\* caller, and no later pair is examined.
C7_FailureEndsCall ==
    /\ [][(pc = "distance" /\ pc' # "test") =>
            /\ pc' = "raised"
            /\ returned' = Raised
            /\ calls' = Append(calls, <<"distance", CurAnion, CurCation>>)]_vars
    /\ [][pc # "raised"]_vars
    /\ [](returned.status = "returned" => k = NPairs(anion_list, cation_list) + 1)

\* the call failed with records already collected and pairs still to visit
C7_Witness ==
    /\ pc = "raised"
    /\ returned = Raised
    /\ salt_bridges # <<>>
    /\ k < NPairs(anion_list, cation_list)

\* C10: with both selections supplied, each distance query directly
\* follows the filter call that accepted the same pair, no rejected pair is
\* ever queried, no pair is filtered or queried twice, and when the call
\* returns every pair of the cross product was filtered once and the
\* distance queries are as many as the accepted pairs.
C10_FilterBeforeDistance ==
    DualSelection(sele_id, sele_id2) =>
        /\ \A i \in DistanceCalls :
              /\ i > 1
              /\ calls[i - 1] = <<"filter", calls[i][2], calls[i][3], FALSE>>
              /\ CrossSelection(calls[i][2], calls[i][3])
        /\ \A i, j \in DOMAIN calls : calls[i] = calls[j] => i = j
        /\ pc = "done" =>
              /\ {<<calls[i][2], calls[i][3]>> : i \in FilterCalls} = CrossProduct
              /\ Cardinality(FilterCalls) = Cardinality(CrossProduct)
              /\ Cardinality(DistanceCalls) =
                    Cardinality({p \in CrossProduct : CrossSelection(p[1], p[2])})

\* a returned call that rejected some pairs and queried others
C10_Witness ==
    /\ pc = "done"
    /\ DualSelection(sele_id, sele_id2)
    /\ Cardinality(DistanceCalls) > 1
    /\ Cardinality(FilterCalls) > Cardinality(DistanceCalls)

-----------------------------------------------------------------------------
(* Properties of the frame scheduler, checked under SpecScheduler *)

\* the records of frame f as a function of the trajectory and the detector
\* configuration alone: empty when the detector fails on f
RECURSIVE InFrameOrder(_)
InFrameOrder(f) ==
    IF f > MaxFrame THEN <<>>
    ELSE (IF f \in StridedFrames(stride)
            THEN FrameContribution(compute_salt_bridges(traj, f))
            ELSE <<>>) \o InFrameOrder(f + 1)

\* C8: once the scheduler has sorted the merged list, the output is the
\* frame-ordered concatenation of the per-frame results, a function of the
\* trajectory, the stride and the detector configuration in which neither
\* the worker count nor the completion order appears; every strided frame
\* was computed exactly once and no other frame was computed.
C8_ScheduleIndependent ==
    output.status = "returned" =>
        /\ output.value = InFrameOrder(0)
        /\ \A f \in Frames :
              processed[f] = IF f \in StridedFrames(stride) THEN 1 ELSE 0

\* two workers, frames finished out of frame order, records from more than
\* one frame in the output
C8_Witness ==
    /\ output.status = "returned"
    /\ cores > 1
    /\ merged # output.value
    /\ \E i, j \in DOMAIN output.value : output.value[i][1] # output.value[j][1]

-----------------------------------------------------------------------------
(* Properties of the command line, checked under SpecCLI *)

\* a positional path is missing when one of the three words after the
\* program name is absent or is a flag; the -itype list is missing when the
\* flag does not occur
PositionalMissing ==
    \E i \in 2..K_MIN_ARG : i > Len(argv) \/ argv[i] \in Flags
ItypeMissing == ~Contains(argv, "-itype")

\* C9: a run with a required argument missing ends with the usage text
\* printed, exit code 1 and compute_dynamic_contacts not invoked.
C9_MissingArgumentUsage ==
    (cli.pc = "exit" /\ (PositionalMissing \/ ItypeMissing)) =>
        /\ cli.usage
        /\ cli.exit = 1
        /\ ~cli.invoked

-----------------------------------------------------------------------------
(* Properties of create_graph, checked under SpecFlare *)

SwapParticipants(contact) == <<contact[1], contact[2], contact[4], contact[3]>>
\* chain, residue name and residue number of a participant
ResidueOf(atom) == <<atom[1], atom[2], atom[3]>>
\* what create_graph itself holds of a graph
Built(g) == <<g.edges, g.resi_edges>>
FramesOf(edge) == {edge.frames[j] : j \in DOMAIN edge.frames}

\* C3: in every state of the loop with a contact still to read, reading a contact and reading the same
\* contact with its two participants exchanged give the same edges; contacts
\* of the same pair of residue keys always land on the same edge, no two
\* edges are of the same pair, and at the end each edge's frames are those
\* of the contacts that landed on it, whichever way round they were listed.
C3_ParticipantOrderIrrelevant ==
    /\ (gpc = "read" /\ consumed < MaxContacts) =>
          \A contact \in ContactDomain :
              Built(LoopBody(Graph, resi_labels, contact)) =
              Built(LoopBody(Graph, resi_labels, SwapParticipants(contact)))
    /\ \A r1, r2 \in kept : (r1[2] = r2[2] /\ r1[3] = r2[3]) => r1[4] = r2[4]
    /\ \A i, j \in DOMAIN edge_keys : edge_keys[i] = edge_keys[j] => i = j
    /\ \A i \in DOMAIN edge_keys :
          {edge_keys[i][1], edge_keys[i][2]} \notin
              {{edge_keys[j][1], edge_keys[j][2]} : j \in DOMAIN edge_keys \ {i}}
    /\ gpc = "done" =>
          \A i \in DOMAIN edges : FramesOf(edges[i]) = {r[1] : r \in {x \in kept : x[4] = i}}

\* two contacts of frames 0 and 1, the same two residues listed one way and
\* then the other: one edge with frames [0, 1]
C3_Witness ==
    /\ gpc = "done"
    /\ consumed = 2
    /\ Len(edges) = 1
    /\ edges[1].frames = <<0, 1>>
    /\ <<edge_keys[1][1], edge_keys[1][2], TRUE>> \in orient
    /\ <<edge_keys[1][1], edge_keys[1][2], FALSE>> \in orient

\* C4: no edge joins a residue key to itself, and in every state of the
\* loop a contact whose two participants are atoms of one residue leaves the
\* edges and their frames as they are.
C4_NoSelfLoop ==
    /\ \A i \in DOMAIN edge_keys : edge_keys[i][1] # edge_keys[i][2]
    /\ ~LabelsTruthy(resi_labels) =>
          \A i \in DOMAIN edges : edges[i].name1 # edges[i].name2
    /\ (gpc = "read" /\ consumed < MaxContacts) =>
          \A contact \in ContactDomain :
              ResidueOf(contact[3]) = ResidueOf(contact[4]) =>
                  Built(LoopBody(Graph, resi_labels, contact)) = Built(Graph)

\* a contact between two atoms of one residue was read and skipped, other
\* contacts made edges
C4_Witness ==
    /\ gpc = "done"
    /\ "self" \in dropped
    /\ edges # <<>>
    /\ \A i \in DOMAIN edge_keys : edge_keys[i][1] # edge_keys[i][2]

\* C5: with a label table supplied, empty or not, no contact with a
\* residue key absent from the table gets as far as an edge (it neither
\* creates one nor adds a frame to one), so every edge has both residue keys
\* in the table.
C5_LabelTableFilters ==
    LabelsNotNone(resi_labels) =>
        /\ \A r \in kept :
              /\ r[2] \in DOMAIN resi_labels.table
              /\ r[3] \in DOMAIN resi_labels.table
        /\ \A i \in DOMAIN edge_keys :
              /\ edge_keys[i][1] \in DOMAIN resi_labels.table
              /\ edge_keys[i][2] \in DOMAIN resi_labels.table

\* C6: after finalization each edge's frames are strictly ascending and are
\* exactly the frames of the contacts that reached line 190 with that edge's
\* pair of residue keys, and every such pair has its edge.
C6_FramesPerPair ==
    gpc = "done" =>
        /\ \A i \in DOMAIN edges :
              /\ \A a, b \in DOMAIN edges[i].frames :
                    a < b => edges[i].frames[a] < edges[i].frames[b]
              /\ FramesOf(edges[i]) =
                    {r[1] : r \in {x \in kept : <<x[2], x[3]>> = edge_keys[i]}}
        /\ \A r \in kept : \E i \in DOMAIN edge_keys : edge_keys[i] = <<r[2], r[3]>>

====
